---- MODULE Spec2Model ----
(***************************************************************************)
(* FlashStudy backend (RajLogic/Flashcards): the flashcard generation      *)
(* pipeline of backend/flashcards.py, the request handlers of              *)
(* backend/main.py and the SQLite storage of backend/database.py.          *)
(*                                                                         *)
(* Text is modelled at the level of tokens.  A line or sentence is a       *)
(* sequence of tokens; a token is a word, a number, a symbol or a          *)
(* punctuation mark.  Adjacent tokens are separated by exactly one blank,  *)
(* except that a token of Glued (".", "!", "?", ":", "%") is written       *)
(* directly after its predecessor.  The token " " is a run of blanks; it   *)
(* occurs only at the ends of raw lines and is what str.strip() removes.   *)
(* The regular expressions of the code are evaluated on tokens: \b falls   *)
(* on token borders, \s+ on the blank between two tokens.  Substring tests *)
(* (k in text) are evaluated with the table Inside, which lists for each   *)
(* word of the vocabulary the keywords it contains as a proper substring.  *)
(***************************************************************************)
EXTENDS Integers, Sequences, FiniteSets

(***************************************************************************)
(* Vocabulary                                                              *)
(***************************************************************************)

\* Words of the shape [A-Z][a-z]* .
CapWords ==
    {"Machine", "Deep", "Human", "Social", "Neural", "Learning", "Artificial",
     "Intelligence", "Overview", "What", "How", "It", "Consider",
     "Introduction", "General", "No", "None", "I", "A"}

\* Words of the shape [a-z]+ .
LowWords ==
    {"machine", "deep", "human", "social", "neural", "learning", "artificial",
     "intelligence", "overview", "what", "how", "it", "consider",
     "introduction", "general", "no", "none", "i", "a", "ai",
     "reasoning", "networks", "is", "of", "subset", "data", "uses", "has",
     "the", "slow", "process", "matters", "training", "accuracy", "does",
     "work", "definition", "available"}

\* Upper-case acronyms: the shape [A-Z][A-Z].
Acronyms == {"AI"}

Numbers == {"95"}

\* Punctuation written directly after the preceding token.
Glued == {".", "!", "?", ":", "%"}

\* A run of blanks.
WS == " "

\* The empty remainder of a match that ends in a blank ("Learning ").
Nil == ""

\* str.lower() on one token.
Lower(t) ==
    CASE t = "Machine" -> "machine"
      [] t = "Deep" -> "deep"
      [] t = "Human" -> "human"
      [] t = "Social" -> "social"
      [] t = "Neural" -> "neural"
      [] t = "Learning" -> "learning"
      [] t = "Artificial" -> "artificial"
      [] t = "Intelligence" -> "intelligence"
      [] t = "Overview" -> "overview"
      [] t = "What" -> "what"
      [] t = "How" -> "how"
      [] t = "It" -> "it"
      [] t = "Consider" -> "consider"
      [] t = "Introduction" -> "introduction"
      [] t = "General" -> "general"
      [] t = "No" -> "no"
      [] t = "None" -> "none"
      [] t = "I" -> "i"
      [] t = "A" -> "a"
      [] t = "AI" -> "ai"
      [] OTHER -> t

\* The keywords a lower-case word contains as a proper substring.
Inside(w) ==
    CASE w = "training" -> {"ai"}
      [] w = "available" -> {"ai"}
      [] OTHER -> {}

\* k in w, for a lower-case word w and a one-word keyword k.
InWord(w, k) == k = w \/ k \in Inside(w)

\* \w+ : a token made of word characters.
IsWord(t) == t \in CapWords \cup LowWords \cup Acronyms \cup Numbers

\* [a-zA-Z]+ : a token made of letters.
IsAlpha(t) == t \in CapWords \cup LowWords \cup Acronyms

(***************************************************************************)
(* Strings as token sequences                                              *)
(***************************************************************************)

LowerSeq(s) == [k \in DOMAIN s |-> Lower(s[k])]

\* s1 + " " + s2 (and " ".join): one blank between the parts.
Join(parts) ==
    LET RECURSIVE J(_)
        J(k) == IF k > Len(parts) THEN <<>> ELSE parts[k] \o J(k + 1)
    IN J(1)

\* str.strip(): drops the blanks (and empty remainders) at both ends.
Strip(s) ==
    LET Blank(t) == t = WS \/ t = Nil
        RECURSIVE L(_)
        L(k) == IF k <= Len(s) /\ Blank(s[k]) THEN L(k + 1) ELSE k
        RECURSIVE R(_)
        R(k) == IF k >= 1 /\ Blank(s[k]) THEN R(k - 1) ELSE k
    IN SubSeq(s, L(1), R(Len(s)))

\* str.startswith(p) for a one-token prefix.
StartsWith(s, t) == Len(s) >= 1 /\ s[1] = t

\* str.endswith(t) for a one-token suffix.
EndsWith(s, t) == Len(s) >= 1 /\ s[Len(s)] = t

\* re.match(r'^(p1|p2|...)\b', s): s begins with one of the phrases.
MatchStart(s, phrases) ==
    \E p \in phrases : Len(s) >= Len(p) /\ SubSeq(s, 1, Len(p)) = p

\* re.search(r'\b(p1|p2|...)\b', s): one of the phrases occurs in s as
\* whole words.
SearchWords(s, phrases) ==
    \E p \in phrases : \E k \in 1..Len(s) :
        k + Len(p) - 1 <= Len(s) /\ SubSeq(s, k, k + Len(p) - 1) = p

\* k in s for a lower-cased s and a keyword k of one or two words.  No word
\* of the vocabulary properly ends with the first or properly begins with
\* the second word of a two-word keyword.
Contains(s, key) ==
    IF Len(key) = 1
    THEN \E k \in 1..Len(s) : InWord(s[k], key[1])
    ELSE \E k \in 1..Len(s) :
            k + Len(key) - 1 <= Len(s) /\ SubSeq(s, k, k + Len(key) - 1) = key

\* len(s.split()): the number of blank-separated words.
WordCount(s) == Cardinality({k \in 1..Len(s) : s[k] \notin Glued \cup {WS, Nil}})

(***************************************************************************)
(* State                                                                   *)
(***************************************************************************)

VARIABLES
    model,              \* flashcards.py globals model/vectorizer: "None" or a loaded classifier
    table,              \* committed rows of the flashcards table
    txn,                \* rows inserted by the open transaction
    quota,              \* requests the clients will still submit
    pc,                 \* where the request handler stands
    request,            \* the request being handled
    content,            \* the text handed to generate_flashcards
    sentences,          \* generate_questions_and_answers: sentences
    i,                  \* ... the loop index (0-based, as in the code)
    questions_answers,  \* ... the dict, in insertion order
    current_term,       \* ... None is <<>>
    answer_sentences,   \* ...
    flashcards,         \* the list generate_flashcards returned
    response,           \* the response sent ("none" while handling)
    stores,             \* history: the dict stores of this pass, in order
    table0,             \* history: the table when the request arrived
    returned,           \* history: the text and the cards of every finished pass
    raised,             \* history: the exception that ended the last request
    scored,             \* history: the last direct call of is_important_line
    card,               \* spaced_repetition.py: the card handed to update_card
    reviews,            \* calls of update_card so far
    reviewed            \* the last call of update_card: the card before it and the quality

vars == <<model, table, txn, quota, pc, request, content, sentences, i,
          questions_answers, current_term, answer_sentences, flashcards,
          response, stores, table0, returned, raised, scored, card, reviews,
          reviewed>>

(***************************************************************************)
(* Importance scorer: flashcards.py, is_important_line                      *)
(***************************************************************************)

DefinitionPhrases ==
    {<<"is", "a">>, <<"refers", "to">>, <<"means">>, <<"defined", "as">>,
     <<"represents">>, <<"emulate">>, <<"ability">>, <<"based", "on">>,
     <<"used", "to">>, <<"coined">>, <<"introduced">>, <<"recognized">>,
     <<"focus", "on">>}

ComparisonPhrases ==
    {<<"difference">>, <<"contrast">>, <<"compare">>, <<"unlike">>,
     <<"whereas">>, <<"instead">>}

DomainKeywords ==
    {<<"artificial", "intelligence">>, <<"machine", "learning">>,
     <<"deep", "learning">>, <<"symbolic", "reasoning">>,
     <<"neural", "networks">>}

QuantityUnits ==
    {<<"loc">>, <<"months">>, <<"person-month">>, <<"%">>, <<"accuracy">>}

TransitionalPhrases ==
    {<<"let", "us">>, <<"now", "let">>, <<"consider">>, <<"for", "example">>,
     <<"suppose">>, <<"ask", "any">>, <<"pose", "the", "same">>}

QuestionWords ==
    {<<"what">>, <<"why">>, <<"how">>, <<"where">>, <<"when">>, <<"who">>}

\* any(k in s for k in keys), s lower-cased
ContainsAny(s, keys) == \E key \in keys : Contains(s, key)

\* line in ["Introduction", "Conclusion"] or re.match(r'^\w+:$', line)
\* or line.startswith("#")
IsHeaderShape(line) ==
    \/ line \in {<<"Introduction">>, <<"Conclusion">>}
    \/ (Len(line) = 2 /\ IsWord(line[1]) /\ line[2] = ":")
    \/ StartsWith(line, "#")

\* The first heading among the (at most 5) units before position idx
\* gives the boost; positions are those of Python (0-based).
UnderHeading(lines, idx) ==
    \E h \in 0..(idx - 1) :
        /\ h >= idx - 5
        /\ h + 1 <= Len(lines)
        /\ LET prev == Strip(lines[h + 1])
           IN StartsWith(prev, "#") \/ prev = <<"Artificial", "Intelligence">>

\* The additive/subtractive score of a stripped, non-empty line.
RuleScore(line, lines, idx) ==
    LET low == LowerSeq(line)
        B(c, n) == IF c THEN n ELSE 0
    IN    B(SearchWords(low, DefinitionPhrases), 6)
        + B(SearchWords(low, ComparisonPhrases), 5)
        + B(ContainsAny(low, DomainKeywords), 5)
        + B((\E k \in 1..Len(line) : line[k] \in Numbers)
              /\ ContainsAny(low, QuantityUnits), 5)
        + B(idx > 0 /\ idx <= Len(lines)
              /\ MatchStart(LowerSeq(lines[idx]), TransitionalPhrases), 4)
        - B(MatchStart(low, QuestionWords) /\ EndsWith(line, "?"), 7)
        - B(MatchStart(low, TransitionalPhrases), 6)
        - B(WordCount(line) < 6, 4)
        - B(IsHeaderShape(line), 8)
        + B(UnderHeading(lines, idx), 2)

\* The classifiers a deployment may have loaded.  The artifact is not part
\* of the repository: any function from text to a verdict is possible, and
\* these two stand for them.
Classifiers == {"accepts_all", "accepts_long"}

\* bool(model.predict(vectorizer.transform([line]))[0])
Predict(m, line) ==
    IF m = "accepts_all" THEN TRUE ELSE WordCount(line) >= 6

\* The verdict for a stripped, non-empty line once its score is known.
\* The classifier alone decides, whatever the rule score.
VerdictUngated(m, score, prediction) ==
    IF m # "None" THEN prediction ELSE score > 3

\* The cutoff is met by a score of 3.
VerdictInclusive(m, score, prediction) ==
    IF m # "None"
    THEN IF score <= 0 THEN FALSE ELSE prediction
    ELSE score >= 3

Verdict(m, score, prediction) ==
    IF m # "None"
    THEN IF score <= 0 THEN FALSE ELSE prediction
    ELSE score > 3

is_important_line(line_in, lines, line_index) ==
    LET line == Strip(line_in)
    IN IF line = <<>> THEN FALSE
       ELSE Verdict(model, RuleScore(line, lines, line_index),
                    Predict(model, line))

(***************************************************************************)
(* Term extractor: flashcards.py, extract_key_terms                        *)
(***************************************************************************)

AnchorWords == {"intelligence", "learning", "reasoning", "networks"}

FallbackTriggers ==
    {<<"artificial">>, <<"machine">>, <<"deep">>, <<"symbolic">>, <<"neural">>}

stop_words ==
    {"the", "and", "in", "with", "as", "is", "are", "was", "were", "now",
     "though", "introduction", "example", "consider", "ask", "what", "why",
     "how", "where", "when", "who", "however", "this", "approach", "proper",
     "significantly", "limited", "foundational"}

\* The capital letter at which a match of [A-Z][a-z]* can begin in token t
\* and end at the end of t: the word itself, or the last letter of an
\* acronym.
CapTail(t) ==
    IF t \in CapWords THEN t
    ELSE IF t \in Acronyms THEN "I"
    ELSE Nil

\* What [A-Z]?[a-z]* matches at the start of token t.
LetterHead(t) ==
    IF t \in CapWords \cup LowWords THEN t
    ELSE IF t \in Acronyms THEN "A"
    ELSE Nil

\* re.findall(r'(?:[A-Z][a-z]*\s+[A-Z]?[a-z]*|[A-Z][a-z]{3,})', text):
\* the non-overlapping matches from left to right, the first alternative
\* preferred.
CapitalizedRuns(text) ==
    LET RECURSIVE Scan(_)
        Scan(k) ==
            IF k > Len(text) THEN <<>>
            ELSE IF /\ CapTail(text[k]) # Nil
                    /\ k < Len(text)
                    /\ text[k + 1] \notin Glued
                 THEN <<  <<CapTail(text[k]), LetterHead(text[k + 1])>>  >>
                      \o Scan(IF text[k + 1] \in CapWords \cup LowWords
                              THEN k + 2 ELSE k + 1)
            ELSE IF text[k] \in CapWords /\ Len(text[k]) >= 4
                 THEN << <<text[k]>> >> \o Scan(k + 1)
            ELSE Scan(k + 1)
    IN Scan(1)

\* The fallback: re.findall(r'\b[a-zA-Z]{4,}\b', text.lower()) without the
\* stop words, kept only when the text names one of the trigger words.
LowercaseTokens(text) ==
    LET low == LowerSeq(text)
        keep(t) == /\ IsAlpha(t) /\ Len(t) >= 4
                   /\ t \notin stop_words
                   /\ ContainsAny(low, FallbackTriggers)
        RECURSIVE Scan(_)
        Scan(k) ==
            IF k > Len(low) THEN <<>>
            ELSE IF keep(low[k]) THEN << <<low[k]>> >> \o Scan(k + 1)
            ELSE Scan(k + 1)
    IN Scan(1)

\* len(t.split()) <= 2 and any(k in t.lower() for k in anchors)
IsKeyTerm(t) ==
    /\ WordCount(t) <= 2
    /\ \E k \in 1..Len(t) : \E a \in AnchorWords : InWord(Lower(t[k]), a)

extract_key_terms(text_in) ==
    LET text == Strip(text_in)
        caps == CapitalizedRuns(text)
        terms == IF caps = <<>> THEN LowercaseTokens(text) ELSE caps
    IN SelectSeq(terms, IsKeyTerm)

\* re.search(rf'\b{re.escape(term)}\b', sentence, re.IGNORECASE): the term
\* occurs in the sentence as whole words, letter case ignored.  A term that
\* ends in a blank needs a word character after the blank.
SearchTerm(term, sentence) ==
    \E k \in 1..Len(sentence) :
        /\ k + Len(term) - 1 <= Len(sentence)
        /\ \A m \in 1..Len(term) :
              IF term[m] = Nil
              THEN IsWord(sentence[k + m - 1])
              ELSE Lower(sentence[k + m - 1]) = Lower(term[m])

(***************************************************************************)
(* Question/answer scan: flashcards.py, generate_questions_and_answers     *)
(***************************************************************************)

AnswerKeywords == {<<"neural">>, <<"accuracy">>}

\* {term} in an f-string: str(term), which is "None" for None (<<>>).
Formatted(term) == IF term = <<>> THEN <<"None">> ELSE term

\* The question without its mark.
WhatIsUnmarked(term) == <<"What", "is">> \o Formatted(term)

\* f"What is {term}?"
WhatIs(term) == <<"What", "is">> \o Formatted(term) \o <<"?">>

\* f"How does {term} work?"
HowDoes(term) == <<"How", "does">> \o Formatted(term) \o <<"work", "?">>

\* re.split(r'(?<=[.!?])\s+', line): the line is cut at every blank that
\* follows a terminator.
SplitSentences(line) ==
    LET RECURSIVE Cut(_, _)
        Cut(from, k) ==
            IF k > Len(line)
            THEN << SubSeq(line, from, Len(line)) >>
            ELSE IF /\ line[k] \in {".", "!", "?"}
                    /\ k < Len(line)
                    /\ line[k + 1] \notin Glued
                 THEN << SubSeq(line, from, k) >> \o Cut(k + 1, k + 1)
                 ELSE Cut(from, k + 1)
    IN Cut(1, 1)

\* Lines 126-131: the sentences of the non-blank lines, in order.
SentencesOf(text) ==
    LET RECURSIVE Walk(_)
        Walk(n) ==
            IF n > Len(text) THEN <<>>
            ELSE LET line == Strip(text[n])
                 IN (IF line # <<>> THEN SplitSentences(line) ELSE <<>>)
                    \o Walk(n + 1)
    IN Walk(1)

\* A store deletes the entry of the key and appends the new one.
DictStoreAtEnd(d, q, a) ==
    SelectSeq(d, LAMBDA e : e.q # q) \o << [q |-> q, a |-> a] >>

\* A store leaves the entry of a key the dict already holds.
DictStoreOnce(d, q, a) ==
    IF \E k \in 1..Len(d) : d[k].q = q
    THEN d
    ELSE Append(d, [q |-> q, a |-> a])

\* questions_answers[q] = a[:] on a dict that keeps insertion order: a known
\* key keeps its place and takes the new value, a new key goes last.
DictStore(d, q, a) ==
    IF \E k \in 1..Len(d) : d[k].q = q
    THEN [k \in 1..Len(d) |-> IF d[k].q = q THEN [q |-> q, a |-> a] ELSE d[k]]
    ELSE Append(d, [q |-> q, a |-> a])

\* One dict store of the scan at position pos, entered in the history.
Put(st, q, a, pos) ==
    [st EXCEPT !.qa = DictStore(st.qa, q, a),
               !.log = Append(st.log, [q |-> q, a |-> a, pos |-> pos])]

\* The flush without its test.
FlushAlways(st, pos) == Put(st, WhatIs(st.cur), st.ans, pos)

\* if current_term and answer_sentences:
\*     questions_answers[f"What is {current_term}?"] = answer_sentences[:]
Flush(st, pos) ==
    IF st.cur # <<>> /\ st.ans # <<>>
    THEN Put(st, WhatIs(st.cur), st.ans, pos)
    ELSE st

\* The defining sentence joins the sentences gathered before it.
LeadInWindowAppending(term, sents, pos) ==
    LET hi == IF pos + 4 < Len(sents) THEN pos + 4 ELSE Len(sents)
        RECURSIVE Look(_, _)
        Look(j, acc) ==
            IF j >= hi THEN acc
            ELSE LET next_sentence == Strip(sents[j + 1])
                     low == LowerSeq(next_sentence)
                 IN IF /\ next_sentence # <<>>
                       /\ (SearchTerm(term, next_sentence)
                            \/ ContainsAny(low, AnswerKeywords))
                    THEN Append(acc, next_sentence)
                    ELSE IF /\ next_sentence # <<>>
                            /\ ~MatchStart(low, TransitionalPhrases)
                         THEN Look(j + 1, Append(acc, next_sentence))
                         ELSE Look(j + 1, acc)
    IN Look(pos + 1, <<>>)

\* Lines 156-164: the look-ahead of the lead-in branch.
LeadInWindow(term, sents, pos) ==
    LET hi == IF pos + 4 < Len(sents) THEN pos + 4 ELSE Len(sents)
        RECURSIVE Look(_, _)
        Look(j, acc) ==
            IF j >= hi THEN acc
            ELSE LET next_sentence == Strip(sents[j + 1])
                     low == LowerSeq(next_sentence)
                 IN IF /\ next_sentence # <<>>
                       /\ (SearchTerm(term, next_sentence)
                            \/ ContainsAny(low, AnswerKeywords))
                    THEN << next_sentence >>
                    ELSE IF /\ next_sentence # <<>>
                            /\ ~MatchStart(low, TransitionalPhrases)
                         THEN Look(j + 1, Append(acc, next_sentence))
                         ELSE Look(j + 1, acc)
    IN Look(pos + 1, <<>>)

\* Lines 184-191 and 201-206: the look-ahead of the important branches,
\* from the seeded answer.
ImportantWindow(seed, sents, pos) ==
    LET hi == IF pos + 4 < Len(sents) THEN pos + 4 ELSE Len(sents)
        RECURSIVE Look(_, _)
        Look(j, acc) ==
            IF j >= hi THEN acc
            ELSE LET next_sentence == Strip(sents[j + 1])
                     low == LowerSeq(next_sentence)
                 IN IF /\ is_important_line(next_sentence, sents, j)
                       /\ ~StartsWith(next_sentence, "-")
                    THEN acc
                    ELSE IF /\ next_sentence # <<>>
                            /\ ~StartsWith(next_sentence, "#")
                            /\ ~MatchStart(low, QuestionWords)
                            /\ ~MatchStart(low, TransitionalPhrases)
                         THEN Look(j + 1, Append(acc, next_sentence))
                         ELSE Look(j + 1, acc)
    IN Look(pos + 1, << seed >>)

\* The question is stored whether or not the look-ahead found an answer.
LeadInTermUnguarded(st, term, sentence, sents, pos) ==
    IF ~SearchTerm(term, sentence) THEN st
    ELSE LET flushed == Flush(st, pos)
             answer == LeadInWindow(term, sents, pos)
             opened == [flushed EXCEPT !.cur = term, !.ans = answer]
         IN Put(opened, WhatIs(term), answer, pos)

\* Lines 146-167: the lead-in branch for one term.
LeadInTerm(st, term, sentence, sents, pos) ==
    IF ~SearchTerm(term, sentence) THEN st
    ELSE LET flushed == Flush(st, pos)
             answer == LeadInWindow(term, sents, pos)
             opened == [flushed EXCEPT !.cur = term, !.ans = answer]
         IN IF answer # <<>> THEN Put(opened, WhatIs(term), answer, pos)
            ELSE opened

\* Lines 174-194: the important branch for one term.
ImportantTerm(st, term, sentence, sents, pos) ==
    IF ~SearchTerm(term, sentence) THEN st
    ELSE LET flushed == Flush(st, pos)
             answer == ImportantWindow(sentence, sents, pos)
             opened == [flushed EXCEPT !.cur = term, !.ans = answer]
         IN IF answer # <<>> THEN Put(opened, WhatIs(term), answer, pos)
            ELSE opened

\* Lines 196-210: the list-item branch.
ListItem(st, sentence, sents, pos) ==
    LET \* sentence.strip("-").strip()
        inner == IF Len(sentence) >= 2 /\ sentence[Len(sentence)] = "-"
                 THEN SubSeq(sentence, 2, Len(sentence) - 1)
                 ELSE Tail(sentence)
        subtopic == Strip(inner)
        terms == extract_key_terms(subtopic)
    IN IF terms = <<>> THEN st
       ELSE LET answer == ImportantWindow(subtopic, sents, pos)
                opened == [st EXCEPT !.cur = terms[1], !.ans = answer]
            IN IF answer # <<>>
               THEN [Put(opened, HowDoes(terms[1]), answer, pos)
                        EXCEPT !.ans = <<>>]
               ELSE opened

\* for term in terms: ...
RECURSIVE ForTerms(_, _, _, _, _, _, _)
ForTerms(Body(_, _, _, _, _), st, terms, k, sentence, sents, pos) ==
    IF k > Len(terms) THEN st
    ELSE ForTerms(Body, Body(st, terms[k], sentence, sents, pos),
                  terms, k + 1, sentence, sents, pos)

\* Lines 137-210: the loop body at position pos (0-based).
ScanSentence(st, sents, pos) ==
    LET sentence == Strip(sents[pos + 1])
        terms == extract_key_terms(sentence)
        important == is_important_line(sentence, sents, pos)
    IN IF sentence = <<>> THEN st
       ELSE IF terms # <<>> /\ ~important
            THEN ForTerms(LeadInTerm, st, terms, 1, sentence, sents, pos)
       ELSE IF important
            THEN ForTerms(ImportantTerm, st, terms, 1, sentence, sents, pos)
       ELSE IF StartsWith(sentence, "-") /\ important
            THEN ListItem(st, sentence, sents, pos)
       ELSE st

(***************************************************************************)
(* Category detector: flashcards.py, detect_category                       *)
(***************************************************************************)

CategoryKeywords == DomainKeywords \cup {<<"ai">>}

\* line.strip("#").strip() or "General", for a line that starts with "#"
HeadingText(line) ==
    LET rest == Tail(line)
        core == IF rest # <<>> /\ rest[Len(rest)] = "#"
                THEN SubSeq(rest, 1, Len(rest) - 1) ELSE rest
    IN IF Strip(core) = <<>> THEN <<"General">> ELSE Strip(core)

detect_category(lines, term) ==
    IF ContainsAny(LowerSeq(Join(lines)), CategoryKeywords)
    THEN <<"Artificial", "Intelligence">>
    ELSE IF \E n \in 1..Len(lines) : StartsWith(lines[n], "#")
         THEN LET first == CHOOSE n \in 1..Len(lines) :
                              /\ StartsWith(lines[n], "#")
                              /\ \A m \in 1..(n - 1) : ~StartsWith(lines[m], "#")
              IN HeadingText(lines[first])
         ELSE <<"General">>

(***************************************************************************)
(* Card assembly: flashcards.py, generate_flashcards                       *)
(***************************************************************************)

MaxCards == 20

\* The first position from which phrase p occurs in s followed by a blank;
\* 0 when there is none.
FindWithBlank(s, p) ==
    LET hit(k) == /\ k + Len(p) <= Len(s)
                  /\ SubSeq(s, k, k + Len(p) - 1) = p
                  /\ s[k + Len(p)] \notin Glued
        hits == {k \in 1..Len(s) : hit(k)}
    IN IF hits = {} THEN 0 ELSE CHOOSE k \in hits : \A m \in hits : k <= m

\* s.split(sep)[0] for a separator that begins with the character before
\* which the text is cut: the tokens before the first occurrence of sep.
Before(s, sep) ==
    LET hits == {k \in 1..Len(s) :
                    k + Len(sep) - 1 <= Len(s)
                    /\ SubSeq(s, k, k + Len(sep) - 1) = sep}
    IN IF hits = {} THEN s
       ELSE SubSeq(s, 1, (CHOOSE k \in hits : \A m \in hits : k <= m) - 1)

\* s.split(prefix + " ")[1]: the text between the first occurrence of the
\* prefix and the next one.
After(s, p) ==
    LET k == FindWithBlank(s, p)
        rest == SubSeq(s, k + Len(p), Len(s))
        again == FindWithBlank(rest, p)
    IN IF again = 0 THEN rest ELSE SubSeq(rest, 1, again - 1)

\* Lines 231-248: the term of a question; <<>> when the question is skipped.
TermOfQuestion(question) ==
    IF FindWithBlank(question, <<"What", "is">>) # 0
    THEN Strip(Before(After(question, <<"What", "is">>), <<"?">>))
    ELSE IF FindWithBlank(question, <<"How", "does">>) # 0
         THEN Strip(Before(After(question, <<"How", "does">>), <<"work", "?">>))
         ELSE <<>>

\* term.lower() in s.lower()
TermIn(term, s) ==
    LET t == LowerSeq(term)
        low == LowerSeq(s)
    IN \E k \in 1..Len(low) :
          k + Len(t) - 1 <= Len(low) /\ SubSeq(low, k, k + Len(t) - 1) = t

\* Lines 252-255: the sentence of the answer kept as the back of the card.
CleanAnswer(term, fragments) ==
    LET answer_text == Strip(Join(fragments))
        list == SplitSentences(answer_text)
        withTerm == {k \in 1..Len(list) : TermIn(term, list[k])}
        withKey == {k \in 1..Len(list) :
                       ContainsAny(LowerSeq(list[k]), AnswerKeywords)}
        least(S) == CHOOSE k \in S : \A m \in S : k <= m
    IN IF withTerm # {} THEN list[least(withTerm)]
       ELSE IF withKey # {} THEN list[least(withKey)]
       ELSE IF list # <<>> THEN answer_text
       ELSE <<"No", "definition", "available", ".">>

\* Lines 228-261: one card per entry whose question yields a term, in the
\* order of the dict.
CardsOf(qa, lines) ==
    LET RECURSIVE Build(_, _, _)
        Build(k, cards, term_to_front) ==
            IF k > Len(qa) THEN cards
            ELSE LET question == qa[k].q
                     term == TermOfQuestion(question)
                 IN IF question \in term_to_front \/ term = <<>>
                    THEN Build(k + 1, cards, term_to_front)
                    ELSE Build(k + 1,
                               Append(cards,
                                      [front |-> question,
                                       back |-> CleanAnswer(term, qa[k].a),
                                       category |-> detect_category(lines, term)]),
                               term_to_front \cup {question})
    IN Build(1, <<>>, {})

\* Every card is returned.
Uncapped(cards) == cards

\* Lines 263-265
Capped(cards) ==
    IF Len(cards) > MaxCards THEN SubSeq(cards, 1, MaxCards) ELSE cards

\* models.py lines 4-7: a Flashcard has the fields front, back and
\* category; the links of a card are what it holds under "links".
Links(flashcard) == IF "links" \in DOMAIN flashcard THEN flashcard.links ELSE <<>>

(***************************************************************************)
(* Storage: database.py, Database.insert_flashcards                        *)
(***************************************************************************)

\* cursor.execute('INSERT INTO flashcards (front, back, category) ...'):
\* the row joins the open transaction under the next AUTOINCREMENT id.
InsertedRow(tbl, pending, flashcard) ==
    [id |-> Len(tbl) + Len(pending) + 1,
     front |-> flashcard.front, back |-> flashcard.back, category |-> flashcard.category]

\* Every INSERT is committed as it is executed.
ConnectionExitAutocommit(tbl, pending, failed) == tbl \o pending

\* Leaving "with self._connect() as conn": the sqlite3 connection commits
\* the open transaction when the block ends normally and rolls it back
\* when the block ends by an exception.
ConnectionExit(tbl, pending, failed) ==
    IF failed THEN tbl ELSE tbl \o pending

\* What the client gets: FastAPI answers 500 when the handler raises.
ResponseOf(failed, cards) ==
    IF failed THEN [status |-> 500, body |-> <<>>]
    ELSE [status |-> 200, body |-> cards]

(***************************************************************************)
(* Review scheduling: spaced_repetition.py, update_card                    *)
(*                                                                         *)
(* The ease is held in hundredths (2.5 is 250) and the interval as the     *)
(* fraction n/d in lowest terms: the products of the code are then exact.  *)
(***************************************************************************)

MinEase == 130

RECURSIVE GCD(_, _)
GCD(a, b) == IF b = 0 THEN a ELSE GCD(b, a % b)

Fraction(n, d) == [n |-> n \div GCD(n, d), d |-> d \div GCD(n, d)]

\* card["interval"] * card["ease"]
TimesEase(interval, ease) == Fraction(interval.n * ease, interval.d * 100)

\* card["ease"] + 0.1 - (5 - quality) * (0.08 + (5 - quality) * 0.02)
AdjustedEase(ease, quality) ==
    ease + 10 - (5 - quality) * (8 + (5 - quality) * 2)

\* The interval follows the ease of this update.
update_cardEaseFirst(c, quality) ==
    IF quality >= 3
    THEN LET ease == IF AdjustedEase(c.ease, quality) > MinEase
                     THEN AdjustedEase(c.ease, quality) ELSE MinEase
         IN [interval |-> IF c.interval = Fraction(1, 1) THEN Fraction(6, 1)
                          ELSE TimesEase(c.interval, ease),
             ease |-> ease]
    ELSE [c EXCEPT !.interval = Fraction(1, 1)]

\* The ease without its floor.
update_cardNoFloor(c, quality) ==
    IF quality >= 3
    THEN [interval |-> IF c.interval = Fraction(1, 1) THEN Fraction(6, 1)
                       ELSE TimesEase(c.interval, c.ease),
          ease |-> AdjustedEase(c.ease, quality)]
    ELSE [c EXCEPT !.interval = Fraction(1, 1)]

update_card(c, quality) ==
    IF quality >= 3
    THEN [interval |-> IF c.interval = Fraction(1, 1) THEN Fraction(6, 1)
                       ELSE TimesEase(c.interval, c.ease),
          ease |-> IF AdjustedEase(c.ease, quality) > MinEase
                   THEN AdjustedEase(c.ease, quality) ELSE MinEase]
    ELSE [c EXCEPT !.interval = Fraction(1, 1)]

(***************************************************************************)
(* Inputs                                                                  *)
(***************************************************************************)

MaxLines == 2
MaxLong == 22
MaxRequests == 3

Catalogue ==
    { <<>>,
      << WS >>,
      << "#", "Artificial", "Intelligence" >>,
      << "#", "Overview" >>,
      << "Machine", "learning", "is", "a", "subset", "of", "data", "." >>,
      << "Deep", "learning", "matters", ".", WS >>,
      << "Human", "reasoning", "is", "a", "slow", "process", "." >>,
      << "What", "is", "Deep", "learning", "?" >>,
      << "-", "Deep", "learning", "uses", "neural", "networks", "." >>,
      << "Consider", "the", "training", "." >>,
      << "It", "has", "95", "%", "accuracy", "." >>,
      << "machine", "learning", "uses", "neural", "networks", "." >>,
      << "AI", "learning", "is", "a", "process", "." >>,
      << "Social", "networks", "uses", "data", ".",
         "It", "is", "a", "subset", "of", "AI", "." >> }

\* The non-empty texts of at most n lines of the catalogue.
Texts(n) == UNION {[1..m -> Catalogue] : m \in 1..n}

FirstWords == <<"Machine", "Deep", "Human", "Social", "Neural">>
SecondWords == <<"learning", "reasoning", "networks", "intelligence", "Learning">>

\* 25 terms that give 25 different questions.
TermAt(k) ==
    << FirstWords[(((k - 1) \div 5) % 5) + 1], SecondWords[((k - 1) % 5) + 1] >>

\* n definitional lines on n different terms; with again, the third line
\* comes back to the first term.
LongText(n, again) ==
    [k \in 1..n |->
        IF again /\ k = 3
        THEN TermAt(1) \o <<"uses", "data", ".">>
        ELSE TermAt(k) \o <<"is", "a", "subset", "of", "data", ".">>]

LongTexts == {LongText(n, again) : n \in (MaxCards - 1)..MaxLong, again \in BOOLEAN}

\* What clients post to /text/.
Documents == Texts(MaxLines) \cup LongTexts

\* What clients upload: a file name extension and a body that is either
\* the text of the file or bytes no parser or decoder accepts.
Extensions == {"pdf", "docx", "jpg", "png", "txt", "exe"}
Garbled == << <<"\\xff">> >>
Uploads ==
    { << << "Deep", "learning", "matters", "." >>,
         << "It", "has", "95", "%", "accuracy", "." >> >>,
      << <<>> >>,
      Garbled }

\* The texts of the repeated-request workload.
\* The units and the contexts the scorer is called on.
MaxContext == 2
Units ==
    Catalogue \cup
    { << "Deep", "learning", "is", "a", "subset", "." >>,
      << "Introduction" >>,
      << "Learning", ":" >> }
Contexts == {<<>>} \cup Texts(MaxContext)

ServiceTexts ==
    { << <<>> >>,
      << << "Machine", "learning", "is", "a", "subset", "of", "data", "." >> >>,
      << << "#", "Overview" >>,
         << "Human", "reasoning", "is", "a", "slow", "process", ".",
            "Deep", "learning", "matters", "." >> >>,
      << << "Deep", "learning", "matters", "." >>,
         << "It", "has", "95", "%", "accuracy", "." >> >> }

\* The units of the look-ahead workload: every text of at most MaxUnits
\* lines, each line one unit.
MaxUnits == 3
WindowUnits ==
    { << "Human", "reasoning", "is", "a", "slow", "process", "." >>,
      << "Deep", "learning", "matters", "." >>,
      << "What", "is", "Deep", "learning", "?" >>,
      << "It", "has", "95", "%", "accuracy", "." >>,
      << "-", "Deep", "learning", "uses", "neural", "networks", "." >>,
      << "#", "Overview" >>,
      << "#", "Introduction" >>,
      << "No", "definition", "available", "." >> }
WindowTexts == UNION {[1..m -> WindowUnits] : m \in 1..MaxUnits}

\* The cards and the ratings update_card is called with.
MaxReviews == 2
Qualities == -1..6
StartCards ==
    {[interval |-> Fraction(n, 1), ease |-> e] : n \in {1, 2}, e \in {MinEase, 140, 250}}

(***************************************************************************)
(* Request handlers: main.py                                               *)
(***************************************************************************)

NoRequest == [endpoint |-> "none", format |-> "none"]
NoError == [type |-> "none", inserted |-> 0]

\* The term in hand and its fragments outlive the pass.
EnterGenerationKeepingTerm(text) ==
    /\ content' = text
    /\ sentences' = SentencesOf(text)
    /\ i' = 0
    /\ questions_answers' = <<>>
    /\ flashcards' = <<>>
    /\ stores' = <<>>
    /\ response' = "none"
    /\ raised' = NoError
    /\ pc' = "scan"
    /\ UNCHANGED <<current_term, answer_sentences>>

\* generate_flashcards is entered: the locals of generate_flashcards and of
\* generate_questions_and_answers start afresh (flashcards.py lines 221-222
\* and 126-134).
EnterGeneration(text) ==
    /\ content' = text
    /\ sentences' = SentencesOf(text)
    /\ i' = 0
    /\ questions_answers' = <<>>
    /\ current_term' = <<>>
    /\ answer_sentences' = <<>>
    /\ flashcards' = <<>>
    /\ stores' = <<>>
    /\ response' = "none"
    /\ raised' = NoError
    /\ pc' = "scan"

\* The handler raised before generate_flashcards was called.
Rejected(type) ==
    /\ raised' = [type |-> type, inserted |-> 0]
    /\ response' = ResponseOf(TRUE, <<>>)
    /\ pc' = "done"
    /\ UNCHANGED <<content, sentences, i, questions_answers, current_term,
                   answer_sentences, flashcards, stores>>

\* parse_pdf, parse_docx, parse_image: the text of the file; a file the
\* parser cannot read raises.
ParserAccepts(body) == body # Garbled

\* content.decode("utf-8") raises UnicodeDecodeError on other bytes.
DecoderAccepts(body) == body # Garbled

\* POST /text/
process_text(text) ==
    /\ pc = "idle"
    /\ quota > 0
    /\ quota' = quota - 1
    /\ request' = [endpoint |-> "/text/", format |-> "text"]
    /\ table0' = table
    /\ EnterGeneration(text)
    /\ UNCHANGED <<model, table, txn, returned, scored>>

\* POST /upload/
upload_file(ext, body) ==
    /\ pc = "idle"
    /\ quota > 0
    /\ quota' = quota - 1
    /\ request' = [endpoint |-> "/upload/", format |-> ext]
    /\ table0' = table
    /\ IF ext \in {"pdf", "docx", "jpg", "png"}
       THEN IF ParserAccepts(body)
            THEN EnterGeneration(body)
            ELSE Rejected("ParseError")
       ELSE IF DecoderAccepts(body)
            THEN EnterGeneration(body)
            ELSE Rejected("UnicodeDecodeError")
    /\ UNCHANGED <<model, table, txn, returned, scored>>

\* One turn of the loop of generate_questions_and_answers.
Scan ==
    /\ pc = "scan"
    /\ i < Len(sentences)
    /\ LET st == ScanSentence([qa |-> questions_answers, cur |-> current_term,
                               ans |-> answer_sentences, log |-> stores],
                              sentences, i)
       IN /\ questions_answers' = st.qa
          /\ current_term' = st.cur
          /\ answer_sentences' = st.ans
          /\ stores' = st.log
    /\ i' = i + 1
    /\ UNCHANGED <<model, table, txn, quota, pc, request, content, sentences,
                   flashcards, response, table0, returned, raised, scored>>

\* The loop is over: the terminal flush (lines 212-214), the cards, the cap;
\* generate_flashcards returns and save_flashcards opens its connection.
Assemble ==
    /\ pc = "scan"
    /\ i = Len(sentences)
    /\ LET st == Flush([qa |-> questions_answers, cur |-> current_term,
                        ans |-> answer_sentences, log |-> stores], i)
           cards == Capped(CardsOf(st.qa, content))
       IN /\ questions_answers' = st.qa
          /\ stores' = st.log
          /\ flashcards' = cards
          /\ returned' = Append(returned, [content |-> content, cards |-> cards])
    /\ pc' = "save"
    /\ UNCHANGED <<model, table, txn, quota, request, content, sentences, i,
                   current_term, answer_sentences, response, table0, raised,
                   scored>>

\* One INSERT of the loop of insert_flashcards.
Insert ==
    /\ pc = "save"
    /\ Len(txn) < Len(flashcards)
    /\ txn' = Append(txn, InsertedRow(table, txn, flashcards[Len(txn) + 1]))
    /\ UNCHANGED <<model, table, quota, pc, request, content, sentences, i,
                   questions_answers, current_term, answer_sentences,
                   flashcards, response, stores, table0, returned, raised,
                   scored>>

\* conn.commit(), the block ends, the handler answers.
Commit ==
    /\ pc = "save"
    /\ Len(txn) = Len(flashcards)
    /\ table' = ConnectionExit(table, txn, FALSE)
    /\ txn' = <<>>
    /\ response' = ResponseOf(FALSE, flashcards)
    /\ pc' = "done"
    /\ UNCHANGED <<model, quota, request, content, sentences, i,
                   questions_answers, current_term, answer_sentences,
                   flashcards, stores, table0, returned, raised, scored>>

\* sqlite3.Error from connect, from an INSERT or from the commit: the block
\* ends by the exception, insert_flashcards logs it and raises it again,
\* and no handler catches it.
StorageError ==
    /\ pc = "save"
    /\ raised' = [type |-> "sqlite3.Error", inserted |-> Len(txn)]
    /\ table' = ConnectionExit(table, txn, TRUE)
    /\ txn' = <<>>
    /\ response' = ResponseOf(TRUE, flashcards)
    /\ pc' = "done"
    /\ UNCHANGED <<model, quota, request, content, sentences, i,
                   questions_answers, current_term, answer_sentences,
                   flashcards, stores, table0, returned, scored>>

\* The handler has answered; the next request finds the server idle.
Idle ==
    /\ pc = "done"
    /\ pc' = "idle"
    /\ request' = NoRequest
    /\ UNCHANGED <<model, table, txn, quota, content, sentences, i,
                   questions_answers, current_term, answer_sentences,
                   flashcards, response, stores, table0, returned, raised,
                   scored>>

NotScored == [line |-> <<>>, score |-> 0, prediction |-> FALSE, verdict |-> FALSE]

\* is_important_line(line, lines, line_index) called once on the unit that
\* follows the units of context.
Score(line, context) ==
    LET lines == Append(context, line)
        line_index == Len(context)
    IN /\ scored = NotScored
       /\ scored' =
            [line |-> line,
             score |-> RuleScore(Strip(line), lines, line_index),
             prediction |-> model # "None" /\ Predict(model, Strip(line)),
             verdict |-> is_important_line(line, lines, line_index)]
       /\ UNCHANGED <<model, table, txn, quota, pc, request, content,
                      sentences, i, questions_answers, current_term,
                      answer_sentences, flashcards, response, stores, table0,
                      returned, raised, card, reviews, reviewed>>

NotReviewed == [before |-> [interval |-> Fraction(1, 1), ease |-> MinEase],
                quality |-> 0, called |-> FALSE]

\* update_card(card, quality): the card is updated in place.
Review(quality) ==
    /\ reviews < MaxReviews
    /\ reviews' = reviews + 1
    /\ reviewed' = [before |-> card, quality |-> quality, called |-> TRUE]
    /\ card' = update_card(card, quality)
    /\ UNCHANGED <<model, table, txn, quota, pc, request, content, sentences,
                   i, questions_answers, current_term, answer_sentences,
                   flashcards, response, stores, table0, returned, raised,
                   scored>>

(***************************************************************************)
(* Specifications                                                          *)
(***************************************************************************)

Start(n) ==
    /\ model \in {"None"} \cup Classifiers
    /\ table = <<>>
    /\ txn = <<>>
    /\ quota = n
    /\ pc = "idle"
    /\ request = NoRequest
    /\ content = <<>>
    /\ sentences = <<>>
    /\ i = 0
    /\ questions_answers = <<>>
    /\ current_term = <<>>
    /\ answer_sentences = <<>>
    /\ flashcards = <<>>
    /\ response = "none"
    /\ stores = <<>>
    /\ table0 = <<>>
    /\ returned = <<>>
    /\ raised = NoError
    /\ scored = NotScored
    /\ reviews = 0
    /\ reviewed = NotReviewed

\* A client posts one of the texts or uploads a file.
Receive(texts) ==
    /\ pc = "idle"
    /\ quota > 0
    /\ \/ \E text \in texts : process_text(text)
       \/ \E ext \in Extensions, body \in Uploads : upload_file(ext, body)
    /\ UNCHANGED <<card, reviews, reviewed>>

Handle ==
    /\ Scan \/ Assemble \/ Insert \/ Commit \/ StorageError \/ Idle
    /\ UNCHANGED <<card, reviews, reviewed>>

\* One request on any document.
\* No card is under review.
NewCard == [interval |-> Fraction(1, 1), ease |-> 250]

Init == Start(1) /\ card = NewCard

Next == Receive(Documents) \/ Handle

Spec == Init /\ [][Next]_vars

\* Several requests, one after the other, on a few documents.
InitService == Start(MaxRequests) /\ card = NewCard

NextService == Receive(ServiceTexts) \/ Handle

SpecService == InitService /\ [][NextService]_vars

\* The scorer alone, called on any unit in any context.
InitScorer == Start(0) /\ card = NewCard

NextScorer == \E line \in Units, context \in Contexts : Score(line, context)

SpecScorer == InitScorer /\ [][NextScorer]_vars

\* One request on a short text of single-unit lines.
InitWindow == Start(1) /\ card = NewCard

NextWindow == Receive(WindowTexts) \/ Handle

SpecWindow == InitWindow /\ [][NextWindow]_vars

\* The scheduler alone: a card reviewed a few times with any ratings.
InitReview == Start(0) /\ card \in StartCards

NextReview == \E quality \in Qualities : Review(quality)

SpecReview == InitReview /\ [][NextReview]_vars

(***************************************************************************)
(* Properties                                                              *)
(***************************************************************************)

\* generate_flashcards has returned for the request in hand.
Generated == pc = "save" \/ (pc = "done" /\ raised.type \in {"none", "sqlite3.Error"})

\* The questions of a history of stores, each at its first store.
FirstSeen(log) ==
    LET RECURSIVE Walk(_, _)
        Walk(k, acc) ==
            IF k > Len(log) THEN acc
            ELSE IF \E m \in 1..Len(acc) : acc[m] = log[k].q
                 THEN Walk(k + 1, acc)
                 ELSE Walk(k + 1, Append(acc, log[k].q))
    IN Walk(1, <<>>)

\* The fragments of the last store of question q in a history of stores.
LastStored(log, q) ==
    LET at == {k \in 1..Len(log) : log[k].q = q}
    IN log[CHOOSE k \in at : \A m \in at : m <= k].a

\* C1: whatever the text and however many entries the scan stored,
\* generate_flashcards returns at most 20 cards.
C1_AtMostMaxCards == Len(flashcards) <= MaxCards

\* The scan stored more entries than the cap and the cards were returned.
C1_Witness ==
    /\ pc = "save"
    /\ Len(questions_answers) > MaxCards
    /\ Len(flashcards) = MaxCards

\* A front of the shape "What is {term}?" or "How does {term} work?" with a
\* term that is not empty.
FitsTemplate(front) ==
    \/ /\ Len(front) >= 4
       /\ SubSeq(front, 1, 2) = <<"What", "is">>
       /\ front[Len(front)] = "?"
       /\ Strip(SubSeq(front, 3, Len(front) - 1)) # <<>>
    \/ /\ Len(front) >= 5
       /\ SubSeq(front, 1, 2) = <<"How", "does">>
       /\ SubSeq(front, Len(front) - 1, Len(front)) = <<"work", "?">>
       /\ Strip(SubSeq(front, 3, Len(front) - 2)) # <<>>

\* C2: every returned card has a front of one of the two templates with a
\* non-empty term, and the cards are exactly the entries of the map whose
\* key fits a template: an entry whose key does not fit is not a card.
C2_FrontsFitTemplate ==
    /\ \A k \in 1..Len(flashcards) : FitsTemplate(flashcards[k].front)
    /\ Generated =>
          \A k \in 1..Len(questions_answers) :
              ~FitsTemplate(questions_answers[k].q) =>
                  \A c \in 1..Len(flashcards) :
                      flashcards[c].front # questions_answers[k].q

\* Cards were returned.
C2_Witness == pc = "save" /\ Len(flashcards) >= 2

\* C3: when the scan stored more than 20 different questions, exactly 20
\* cards are returned, and they are the first 20 different questions in the
\* order of their first store; generation ends normally.
C3_FirstTwentyInEncounterOrder ==
    (pc \in {"save", "done"} /\ Len(FirstSeen(stores)) > MaxCards) =>
        /\ Len(flashcards) = MaxCards
        /\ \A k \in 1..MaxCards : flashcards[k].front = FirstSeen(stores)[k]
        /\ raised.type \in {"none", "sqlite3.Error"}

\* More than 20 different questions, one of them stored again after others
\* had been met, and the cards returned.
C3_Witness ==
    /\ pc = "save"
    /\ Len(FirstSeen(stores)) > MaxCards
    /\ \E a, b \in 1..Len(stores) :
          a + 1 < b /\ stores[a].q = stores[b].q /\ stores[a + 1].q # stores[a].q

\* C4: the map holds one entry per question and the entry of a question
\* holds the fragments of its last store; no two cards share a front, and
\* the back of a card is taken from the fragments of the last store of its
\* question.
C4_LastWriterWins ==
    /\ \A a, b \in 1..Len(questions_answers) :
          questions_answers[a].q = questions_answers[b].q => a = b
    /\ \A k \in 1..Len(questions_answers) :
          questions_answers[k].a = LastStored(stores, questions_answers[k].q)
    /\ \A a, b \in 1..Len(flashcards) :
          flashcards[a].front = flashcards[b].front => a = b
    /\ Generated =>
          \A k \in 1..Len(flashcards) :
              flashcards[k].back =
                  CleanAnswer(TermOfQuestion(flashcards[k].front),
                              LastStored(stores, flashcards[k].front))

\* A question stored at two positions with different fragments, the pre-flush
\* and the terminal flush among the stores, and its card returned.
C4_Witness ==
    /\ pc = "save"
    /\ \E a, b \in 1..Len(stores) :
          /\ a < b
          /\ stores[a].q = stores[b].q
          /\ stores[a].a # stores[b].a
          /\ stores[a].pos # stores[b].pos
          /\ \E c \in 1..Len(flashcards) : flashcards[c].front = stores[a].q
    /\ stores[Len(stores)].pos = Len(sentences)

\* The rows a batch of cards becomes.
SameCards(rows, cards) ==
    /\ Len(rows) = Len(cards)
    /\ \A k \in 1..Len(rows) :
          /\ rows[k].front = cards[k].front
          /\ rows[k].back = cards[k].back
          /\ rows[k].category = cards[k].category

BatchSaved ==
    /\ Len(table) = Len(table0) + Len(flashcards)
    /\ SubSeq(table, 1, Len(table0)) = table0
    /\ SameCards(SubSeq(table, Len(table0) + 1, Len(table)), flashcards)

\* C5: a batch is saved as a whole or not at all.  While a request is being
\* handled the table is as the request found it; when the handler has
\* answered 200 every card of the batch is in the table, and when storage
\* failed at any point the table is as the request found it and the client
\* got the error (500).
C5_BatchAtomic ==
    /\ pc \in {"scan", "save"} => table = table0
    /\ pc = "done" =>
          \/ response.status = 200 /\ raised = NoError /\ BatchSaved
          \/ response.status = 500 /\ raised # NoError /\ table = table0

\* The second of a batch of two or more INSERTs or a later one failed on a
\* table that held an earlier batch.
C5_Witness ==
    /\ pc = "done"
    /\ raised.type = "sqlite3.Error"
    /\ raised.inserted >= 1
    /\ raised.inserted < Len(flashcards)
    /\ table0 # <<>>
    /\ response.status = 500

\* C6: with a classifier loaded, a unit whose rule score is at most 0 is not
\* important whatever the classifier predicts, and a unit whose rule score
\* is positive is important exactly when the classifier predicts so.
C6_ClassifierGatedByScore ==
    (model # "None" /\ scored # NotScored /\ Strip(scored.line) # <<>>) =>
        /\ scored.score <= 0 => scored.verdict = FALSE
        /\ scored.score > 0 => scored.verdict = scored.prediction

\* The classifier predicts important for a unit of score at most 0.
C6_Witness ==
    /\ model # "None"
    /\ scored # NotScored
    /\ Strip(scored.line) # <<>>
    /\ scored.score <= 0
    /\ scored.prediction

\* C7: without a classifier, a unit is important exactly when it is not
\* empty and its rule score is greater than 3.
C7_RuleThreshold ==
    (model = "None" /\ scored # NotScored) =>
        scored.verdict = (Strip(scored.line) # <<>> /\ scored.score > 3)

\* A unit that scores exactly 3.
C7_Witness ==
    /\ model = "None"
    /\ scored # NotScored
    /\ Strip(scored.line) # <<>>
    /\ scored.score = 3
    /\ ~scored.verdict

\* C8: without a classifier, two passes over the same text return the same
\* cards, whatever was generated before or between them.
C8_Deterministic ==
    model = "None" =>
        \A a, b \in 1..Len(returned) :
            returned[a].content = returned[b].content =>
                returned[a].cards = returned[b].cards

\* A text generated twice with another text generated in between, all of
\* them with cards.
C8_Witness ==
    /\ model = "None"
    /\ Len(returned) = 3
    /\ returned[1].content = returned[3].content
    /\ returned[2].content # returned[1].content
    /\ returned[1].cards # <<>>
    /\ returned[2].cards # <<>>

\* A text without a character other than blanks.
IsBlankText(text) == \A n \in 1..Len(text) : Strip(text[n]) = <<>>

\* C9: for an empty text and for a text of blanks only, generate_flashcards
\* returns the empty list; it raises nothing.
C9_BlankTextNoCards ==
    (pc # "idle" /\ raised.type \in {"none", "sqlite3.Error"}
        /\ request # NoRequest /\ IsBlankText(content)) =>
        /\ pc \in {"scan", "save", "done"}
        /\ questions_answers = <<>>
        /\ flashcards = <<>>

\* A text of two lines, one of blanks and one empty, has been generated.
C9_Witness ==
    /\ pc = "save"
    /\ content = << <<WS>>, <<>> >>
    /\ flashcards = <<>>

\* The formats the service is specified to accept.
SupportedFormats == {"pdf", "docx", "jpg", "png", "txt"}

\* C10: an upload whose format is not supported is answered by an error, and
\* its content reaches neither generate_flashcards nor the table.
C10_UnsupportedRejected ==
    (request.endpoint = "/upload/" /\ request.format \notin SupportedFormats) =>
        /\ pc = "done"
        /\ response.status = 500
        /\ table = table0

\* The terms of a card: the key terms of its front followed by its back.
CardTerms(flashcard) ==
    LET terms == extract_key_terms(flashcard.front \o flashcard.back)
    IN {terms[k] : k \in 1..Len(terms)}

\* C11: for every ordered pair of different returned cards whose terms
\* intersect, the front of the second card is among the links of the first.
C11_CrossLinked ==
    Generated =>
        \A a, b \in 1..Len(flashcards) :
            (a # b /\ CardTerms(flashcards[a]) \cap CardTerms(flashcards[b]) # {}) =>
                \E m \in 1..Len(Links(flashcards[a])) :
                    Links(flashcards[a])[m] = flashcards[b].front

\* C12: a call of update_card with a quality of 3 or more sets the
\* interval to 6 when it was 1 and otherwise to the old interval times the
\* ease the card had before the call; a call with a quality below 3 sets
\* the interval to 1.
C12_IntervalRule ==
    reviewed.called =>
        LET old == reviewed.before
        IN IF reviewed.quality >= 3
           THEN IF old.interval.n = old.interval.d
                THEN card.interval.n = 6 * card.interval.d
                ELSE card.interval =
                         Fraction(old.interval.n * old.ease, old.interval.d * 100)
           ELSE card.interval.n = card.interval.d

\* A second review of quality 3 or more on a card whose interval is not 1,
\* which changes the ease.
C12_Witness ==
    /\ reviews = 2
    /\ reviewed.called
    /\ reviewed.quality >= 3
    /\ reviewed.before.interval.n # reviewed.before.interval.d
    /\ card.ease # reviewed.before.ease
    /\ card.interval.d # 1

\* C13: from an ease of 1.3 or more, the ease is 1.3 or more after every
\* sequence of calls with any ratings, and a call with a quality below 3
\* leaves the ease as it was.
C13_EaseFloor ==
    /\ card.ease >= MinEase
    /\ (reviewed.called /\ reviewed.quality < 3) =>
          card.ease = reviewed.before.ease

\* A call whose adjustment would take the ease below 1.3.
C13_Witness ==
    /\ reviewed.called
    /\ reviewed.quality = 3
    /\ reviewed.before.ease - 14 < MinEase
    /\ card.ease = MinEase

\* The loop of the scan has just handled a unit: the unit, stripped, and
\* its position (0-based).
JustScanned == pc = "scan" /\ i > 0 /\ Strip(sentences[i]) # <<>>

ScannedUnit == Strip(sentences[i])

ScannedAt == i - 1

ScannedTerms ==
    LET terms == extract_key_terms(ScannedUnit)
    IN {terms[k] : k \in 1..Len(terms)}

ScannedImportant == is_important_line(ScannedUnit, sentences, ScannedAt)

\* The questions stored while the unit at position pos was handled.
StoredAt(pos) == {stores[k].q : k \in {m \in 1..Len(stores) : stores[m].pos = pos}}

\* C14: a unit that starts with "-", is important and yields a term X makes
\* the scan store "How does X work?" and not "What is X?".
C14_ListItemHowDoes ==
    (JustScanned /\ StartsWith(ScannedUnit, "-") /\ ScannedImportant) =>
        \A X \in ScannedTerms :
            /\ HowDoes(X) \in StoredAt(ScannedAt)
            /\ WhatIs(X) \notin StoredAt(ScannedAt)

\* The last position (0-based) of the look-ahead from position pos.
WindowEnd(pos) ==
    IF pos + 3 < Len(sentences) - 1 THEN pos + 3 ELSE Len(sentences) - 1

UnitAt(pos) == Strip(sentences[pos + 1])

\* The positions of the window after pos whose unit is important on its
\* own or begins like a question.
Stoppers(pos) ==
    {k \in (pos + 1)..WindowEnd(pos) :
        \/ is_important_line(UnitAt(k), sentences, k)
        \/ MatchStart(LowerSeq(UnitAt(k)), QuestionWords)}

\* C15: the answer the important branch stores begins with the unit itself,
\* and when a unit of the window is important on its own or begins like a
\* question, the answer holds nothing from that unit or from a later one.
C15_LookAheadStops ==
    (JustScanned /\ ScannedImportant /\ stores # <<>>
        /\ stores[Len(stores)].pos = ScannedAt) =>
        LET a == stores[Len(stores)].a
            stop == Stoppers(ScannedAt)
            first == CHOOSE k \in stop : \A m \in stop : k <= m
        IN /\ a[1] = ScannedUnit
           /\ stop # {} =>
                 /\ Len(a) <= first - ScannedAt
                 /\ \A m \in 2..Len(a) :
                       a[m] \in {UnitAt(j) : j \in (ScannedAt + 1)..(first - 1)}

\* The positions of the window after pos whose unit repeats the term or
\* holds an anchor keyword.
Defining(term, pos) ==
    {k \in (pos + 1)..WindowEnd(pos) :
        /\ UnitAt(k) # <<>>
        /\ \/ SearchTerm(term, UnitAt(k))
           \/ ContainsAny(LowerSeq(UnitAt(k)), AnswerKeywords)}

FirstDefining(term, pos) ==
    CHOOSE k \in Defining(term, pos) : \A m \in Defining(term, pos) : k <= m

\* The fragments of the last store of question q made at position pos.
LastStoredAt(pos, q) ==
    LET at == {k \in 1..Len(stores) : stores[k].pos = pos /\ stores[k].q = q}
    IN IF at = {} THEN <<>>
       ELSE stores[CHOOSE k \in at : \A m \in at : m <= k].a

\* C16: when a unit that is not important has a term and a unit of the
\* window repeats the term or holds an anchor keyword, the answer stored
\* for "What is {term}?" is that first such unit alone.
C16_LeadInAnswerReplaced ==
    (JustScanned /\ ~ScannedImportant) =>
        \A term \in ScannedTerms :
            (SearchTerm(term, ScannedUnit) /\ Defining(term, ScannedAt) # {}) =>
                LET answer == << UnitAt(FirstDefining(term, ScannedAt)) >>
                IN /\ LastStoredAt(ScannedAt, WhatIs(term)) = answer
                   /\ \E k \in 1..Len(questions_answers) :
                         /\ questions_answers[k].q = WhatIs(term)
                         /\ questions_answers[k].a = answer

\* The unit after the lead-in was gathered and then dropped for the
\* defining unit that follows it.
C16_Witness ==
    /\ JustScanned
    /\ ~ScannedImportant
    /\ \E term \in ScannedTerms :
          /\ SearchTerm(term, ScannedUnit)
          /\ Defining(term, ScannedAt) # {}
          /\ FirstDefining(term, ScannedAt) = ScannedAt + 2
          /\ ~MatchStart(LowerSeq(UnitAt(ScannedAt + 1)), TransitionalPhrases)
          /\ LastStoredAt(ScannedAt, WhatIs(term)) = << UnitAt(ScannedAt + 2) >>

\* The position (0-based) at which question q was first stored.
FirstStoredAt(q) ==
    stores[CHOOSE k \in 1..Len(stores) :
               /\ stores[k].q = q
               /\ \A m \in 1..(k - 1) : stores[m].q # q].pos

\* The lines before the unit at position pos that are headings, in a text
\* whose lines are one unit each.
HeadingsBefore(pos) == {n \in 1..pos : StartsWith(content[n], "#")}

\* C17: the category of a card is the domain category when the text holds
\* a domain keyword; otherwise it is the text of the nearest heading before
\* the unit of the card's term, or "General" in a text without headings.
C17_NearestHeading ==
    (Generated /\ Len(sentences) = Len(content)) =>
        \A c \in 1..Len(flashcards) :
            LET at == FirstStoredAt(flashcards[c].front)
                before == HeadingsBefore(at)
                nearest == CHOOSE n \in before : \A m \in before : m <= n
            IN IF ContainsAny(LowerSeq(Join(content)), CategoryKeywords)
               THEN flashcards[c].category = <<"Artificial", "Intelligence">>
               ELSE IF before # {}
                    THEN flashcards[c].category = HeadingText(content[nearest])
                    ELSE (\A n \in 1..Len(content) : ~StartsWith(content[n], "#")) =>
                             flashcards[c].category = <<"General">>

\* The back generate_flashcards gives a card whose answer has no sentence.
NoDefinition == <<"No", "definition", "available", ".">>

\* A non-empty sequence of non-empty fragments.
IsAnswer(a) == a # <<>> /\ \A m \in 1..Len(a) : Strip(a[m]) # <<>>

AnswersStored ==
    /\ \A k \in 1..Len(stores) : IsAnswer(stores[k].a)
    /\ \A k \in 1..Len(questions_answers) : IsAnswer(questions_answers[k].a)

\* The sentence occurs in the text s.
Reads(s, sentence) ==
    \E k \in 1..Len(s) :
        /\ k + Len(sentence) - 1 <= Len(s)
        /\ SubSeq(s, k, k + Len(sentence) - 1) = sentence

\* C18 as stated: every stored entry holds a non-empty sequence of non-empty
\* fragments, every returned card has a non-empty back, and no returned
\* card has the back "No definition available.".
C18_BackNeverNoDefinition ==
    /\ AnswersStored
    /\ Generated =>
          \A c \in 1..Len(flashcards) :
              /\ flashcards[c].back # <<>>
              /\ flashcards[c].back # NoDefinition

\* C18, amended: every stored entry holds a non-empty sequence of non-empty
\* fragments and every returned card has a non-empty back; the answer of a
\* card always has a sentence, so the fallback is never taken, and a back
\* reads "No definition available." only when the fragments stored for the
\* card's question read so themselves.
C18_FallbackNeverTaken ==
    /\ AnswersStored
    /\ Generated =>
          \A c \in 1..Len(flashcards) :
              LET answer_text ==
                      Strip(Join(LastStored(stores, flashcards[c].front)))
              IN /\ flashcards[c].back # <<>>
                 /\ answer_text # <<>>
                 /\ SplitSentences(answer_text) # <<>>
                 /\ Reads(answer_text, flashcards[c].back)
                 /\ flashcards[c].back = NoDefinition =>
                        Reads(answer_text, NoDefinition)

\* Two cards returned, one of them with a back that reads as the fallback
\* because the text holds that sentence.
C18_Witness ==
    /\ pc = "save"
    /\ Len(flashcards) >= 2
    /\ \E c \in 1..Len(flashcards) : flashcards[c].back = NoDefinition

====
